---- MODULE Spec2Model ----
(***************************************************************************)
(* Client transport channel of tonic: Connection (the layered service      *)
(* stack built by Connection::new), SendRequest (per-connection            *)
(* dispatcher), MakeSendRequestService (connector + handshake + driver     *)
(* spawn), together with the reconnect engine and the policy layers the    *)
(* stack is composed of.                                                   *)
(***************************************************************************)
EXTENDS Integers, Sequences, FiniteSets, TLC

\* ---------------------------------------------------------------- bounds
MaxCalls == 3
MaxAttempts == 2
MaxLimit == 2

\* Option<T>: None is <<>>, Some(x) is <<x>>
None == <<>>
Some(x) == <<x>>
Unwrap(o) == o[1]

VARIABLES
    endpoint,   \* Endpoint: the immutable configuration handed to Connection::new
    chan,       \* facade: "unbuilt" | "awaiting" (connect() in ready_oneshot) | "built" | "failed"
    reconnect,  \* reconnect engine: [state, handle, error, is_lazy]
    attempt,    \* the future returned by MakeSendRequestService::call: [stage, res]
    conns,      \* conns[h]: "open" | "closed", the connection behind dispatcher handle h
    executed,   \* driver tasks handed to the executor, in submission order: [conn, out]
    sem,        \* concurrency limiter: [avail, permit]
    rate,       \* rate limiter: [state, until, rem]; until counts the ticks left to that instant
    calls,      \* the response futures handed out by Connection::call and not yet finished
    done,       \* the futures the latest step finished, with their results
    lastReady,  \* outcome of the latest readiness check: [res, by, err, term], and
                \* waited: the ticks its caller has spent Pending at a limiter so far
    hist,       \* [connectorCalls, handshakes, polled]
    stopwatch,  \* whether the ticks a caller spends Pending at a limiter are counted
    error,      \* transport::Error: the value under construction, [kind, source]
    inspected,  \* what Display and source() gave for an error: [of, display, source]
    quota_failure, \* QuotaFailure: [violations]
    created,    \* the violations quota_failure was created with, and
    added,      \* the <<subject, description>> given to add_violation since, in order
    gen_any,    \* Option<Any>: the latest result of into_any
    br_details  \* Option<Result<QuotaFailure, DecodeError>>: the latest result of from_any

channelVars == <<endpoint, chan, reconnect, attempt, conns, executed, sem,
                 rate, calls, done, lastReady, hist>>
errorVars == <<error, inspected>>
quotaVars == <<quota_failure, created, added, gen_any, br_details>>
vars == <<channelVars, stopwatch, errorVars, quotaVars>>

\* ------------------------------------------------------- endpoint inputs
Uri == "uri"
OriginOverride == "origin"
Agent == "agent"
\* durations are counted in clock ticks
Timeouts == {2}
RateLimits == {<<2, 2>>}

Endpoints ==
    [ uri : {Uri},
      origin : {None, Some(OriginOverride)},
      user_agent : {None, Some(Agent)},
      timeout : {None} \cup {Some(t) : t \in Timeouts},
      concurrency_limit : {None} \cup {Some(l) : l \in 1..MaxLimit},
      rate_limit : {None} \cup {Some(r) : r \in RateLimits} ]

\* the endpoints explored: the two header layers are configured together
EndpointInputs == { e \in Endpoints : (e.origin = None) = (e.user_agent = None) }

\* the request as the caller hands it to Connection::call
CallerRequest == [origin |-> "caller", user_agent |-> "caller"]

\* --------------------------------------------------------- errors
\* transport::Error: Error::new, Error::with, Error::from_source
Error_new(kind) == [kind |-> kind, source |-> None]
\* with that stores the cause inside a new error of kind Transport
Error_with_wrapped(e, source) ==
    [e EXCEPT !.source = Some([kind |-> "Transport", source |-> Some(source)])]

Error_with(e, source) == [e EXCEPT !.source = Some(source)]
\* from_source that builds the error of kind Transport and leaves the source out
Error_from_source_bare(source) == Error_new("Transport")

Error_from_source(source) == Error_with(Error_new("Transport"), source)

\* the boxed errors of the collaborators
NoError == [kind |-> "none", source |-> None]
HyperError == [kind |-> "hyper::Error", source |-> None]
ConnectorError == [kind |-> "C::Error", source |-> None]
\* the error of the elapsed deadline of a call
TimeoutExpired == [kind |-> "TimeoutExpired", source |-> None]

NoReady == [res |-> "none", by |-> "none", err |-> NoError, term |-> FALSE, waited |-> 0]
NoAttempt == [stage |-> "none", res |-> "none"]

\* the mutable state of the composed service, as one value
Svc ==
    [ sem |-> sem, rate |-> rate, reconnect |-> reconnect, attempt |-> attempt,
      conns |-> conns, executed |-> executed, hist |-> hist ]

\* --------------------------------------------------- Connection::new
\* the stack without the option_layer of the concurrency limit
Stack_unlimited(e) ==
    << [name |-> "AddOrigin", arg |-> IF e.origin # None THEN Unwrap(e.origin) ELSE e.uri],
       [name |-> "UserAgent", arg |-> e.user_agent],
       [name |-> "GrpcTimeout", arg |-> e.timeout] >>
    \o (IF e.rate_limit # None
          THEN << [name |-> "RateLimit", arg |-> Unwrap(e.rate_limit)] >>
          ELSE << >>)

\* the stack with a GrpcTimeout layer that is given no timeout
Stack_untimed(e) ==
    << [name |-> "AddOrigin", arg |-> IF e.origin # None THEN Unwrap(e.origin) ELSE e.uri],
       [name |-> "UserAgent", arg |-> e.user_agent],
       [name |-> "GrpcTimeout", arg |-> None] >>
    \o (IF e.concurrency_limit # None
          THEN << [name |-> "ConcurrencyLimit", arg |-> Unwrap(e.concurrency_limit)] >>
          ELSE << >>)
    \o (IF e.rate_limit # None
          THEN << [name |-> "RateLimit", arg |-> Unwrap(e.rate_limit)] >>
          ELSE << >>)

\* the stack whose origin layer ignores the endpoint's origin override
Stack_uri_origin(e) ==
    << [name |-> "AddOrigin", arg |-> e.uri],
       [name |-> "UserAgent", arg |-> e.user_agent],
       [name |-> "GrpcTimeout", arg |-> e.timeout] >>
    \o (IF e.concurrency_limit # None
          THEN << [name |-> "ConcurrencyLimit", arg |-> Unwrap(e.concurrency_limit)] >>
          ELSE << >>)
    \o (IF e.rate_limit # None
          THEN << [name |-> "RateLimit", arg |-> Unwrap(e.rate_limit)] >>
          ELSE << >>)

\* layers of the ServiceBuilder, outermost first
Stack(e) ==
    << [name |-> "AddOrigin", arg |-> IF e.origin # None THEN Unwrap(e.origin) ELSE e.uri],
       [name |-> "UserAgent", arg |-> e.user_agent],
       [name |-> "GrpcTimeout", arg |-> e.timeout] >>
    \o (IF e.concurrency_limit # None
          THEN << [name |-> "ConcurrencyLimit", arg |-> Unwrap(e.concurrency_limit)] >>
          ELSE << >>)
    \o (IF e.rate_limit # None
          THEN << [name |-> "RateLimit", arg |-> Unwrap(e.rate_limit)] >>
          ELSE << >>)

LayerArg(e, n) ==
    LET st == Stack(e)
        I == { i \in 1..Len(st) : st[i].name = n }
    IN  IF I = {} THEN None ELSE Some(st[CHOOSE i \in I : TRUE].arg)

\* Reconnect::new(make_service, uri, is_lazy)
Reconnect_new(lazy) ==
    [state |-> "Idle", handle |-> 0, error |-> NoError, is_lazy |-> lazy]

\* ConcurrencyLimitLayer::new(max): a semaphore of max permits
ConcurrencyLimit_new(max) == [avail |-> max, permit |-> FALSE]

\* RateLimitLayer::new(num, per)
RateLimit_new(num, per) == [state |-> "Ready", until |-> 0, rem |-> num]

\* Connection::new that gives the semaphore one permit too many
Connection_new_extra_permit(e, lazy) ==
    [ sem |-> IF LayerArg(e, "ConcurrencyLimit") # None
                THEN ConcurrencyLimit_new(Unwrap(LayerArg(e, "ConcurrencyLimit")) + 1)
                ELSE ConcurrencyLimit_new(0),
      rate |-> IF LayerArg(e, "RateLimit") # None
                 THEN RateLimit_new(Unwrap(LayerArg(e, "RateLimit"))[1],
                                    Unwrap(LayerArg(e, "RateLimit"))[2])
                 ELSE [state |-> "Ready", until |-> 0, rem |-> 0],
      reconnect |-> Reconnect_new(lazy),
      attempt |-> NoAttempt,
      conns |-> << >>,
      executed |-> << >>,
      hist |-> hist ]

\* Connection::new that starts the first connect attempt itself
Connection_new_connecting(e, lazy) ==
    [ sem |-> IF LayerArg(e, "ConcurrencyLimit") # None
                THEN ConcurrencyLimit_new(Unwrap(LayerArg(e, "ConcurrencyLimit")))
                ELSE ConcurrencyLimit_new(0),
      rate |-> IF LayerArg(e, "RateLimit") # None
                 THEN RateLimit_new(Unwrap(LayerArg(e, "RateLimit"))[1],
                                    Unwrap(LayerArg(e, "RateLimit"))[2])
                 ELSE [state |-> "Ready", until |-> 0, rem |-> 0],
      reconnect |-> [Reconnect_new(lazy) EXCEPT !.state = "Connecting"],
      attempt |-> [stage |-> "io", res |-> "pending"],
      conns |-> << >>,
      executed |-> << >>,
      hist |-> [hist EXCEPT !.connectorCalls = @ + 1] ]

Connection_new(e, lazy) ==
    [ sem |-> IF LayerArg(e, "ConcurrencyLimit") # None
                THEN ConcurrencyLimit_new(Unwrap(LayerArg(e, "ConcurrencyLimit")))
                ELSE ConcurrencyLimit_new(0),
      rate |-> IF LayerArg(e, "RateLimit") # None
                 THEN RateLimit_new(Unwrap(LayerArg(e, "RateLimit"))[1],
                                    Unwrap(LayerArg(e, "RateLimit"))[2])
                 ELSE [state |-> "Ready", until |-> 0, rem |-> 0],
      reconnect |-> Reconnect_new(lazy),
      attempt |-> NoAttempt,
      conns |-> << >>,
      executed |-> << >>,
      hist |-> hist ]

\* ------------------------------------------- MakeSendRequestService
\* call(uri): the connector is called at once; the returned future awaits its stream
MakeSendRequestService_call(s) ==
    [s EXCEPT !.attempt = [stage |-> "io", res |-> "pending"],
              !.hist.connectorCalls = @ + 1]

\* a spawned task that hands the error of the connection back as its output
ConnectionTask_returning(res) ==
    [ out |-> IF res = "err" THEN "Err(hyper::Error)" ELSE "()",
      logged |-> None ]

\* the spawned task: conn.await, whose error is only logged (tracing::debug!); the
\* output of the task is the unit value
ConnectionTask(res) ==
    [ out |-> "()",
      logged |-> IF res = "err" THEN Some(HyperError) ELSE None ]

\* a connect future that returns the handle without handing the driver to the executor
Execute_unspawned(s, h) == s

\* Executor::execute(&executor, conn driver)
Execute(s, h) == [s EXCEPT !.executed = Append(@, [conn |-> h, out |-> None])]

\* a connect future that wraps the handshake's error with Error::from_source
MakeSendRequestService_poll_wrapped(s) ==
    LET a == s.attempt IN
    CASE a.res = "pending" ->
           [out |-> "Pending", err |-> NoError, handle |-> 0, s |-> s]
      [] a.res = "err" ->
           [out |-> "Err",
            err |-> IF a.stage = "io" THEN ConnectorError ELSE Error_from_source(HyperError),
            handle |-> 0, s |-> [s EXCEPT !.attempt = NoAttempt]]
      [] a.res = "ok" /\ a.stage = "io" ->
           [out |-> "Pending", err |-> NoError, handle |-> 0,
            s |-> [s EXCEPT !.attempt = [stage |-> "hs", res |-> "pending"],
                            !.hist.handshakes = @ + 1]]
      [] a.res = "ok" /\ a.stage = "hs" ->
           LET h == Len(s.conns) + 1
               t == [s EXCEPT !.attempt = NoAttempt, !.conns = Append(@, "open")]
           IN  [out |-> "Ok", err |-> NoError, handle |-> h, s |-> Execute(t, h)]

\* a connect future that drops the error of a failed attempt and never resolves
MakeSendRequestService_poll_lossy(s) ==
    LET a == s.attempt IN
    CASE a.res = "pending" ->
           [out |-> "Pending", err |-> NoError, handle |-> 0, s |-> s]
      [] a.res = "err" ->
           [out |-> "Pending", err |-> NoError, handle |-> 0,
            s |-> [s EXCEPT !.attempt.res = "pending"]]
      [] a.res = "ok" /\ a.stage = "io" ->
           [out |-> "Pending", err |-> NoError, handle |-> 0,
            s |-> [s EXCEPT !.attempt = [stage |-> "hs", res |-> "pending"],
                            !.hist.handshakes = @ + 1]]
      [] a.res = "ok" /\ a.stage = "hs" ->
           LET h == Len(s.conns) + 1
               t == [s EXCEPT !.attempt = NoAttempt, !.conns = Append(@, "open")]
           IN  [out |-> "Ok", err |-> NoError, handle |-> h, s |-> Execute(t, h)]

\* a connect future that calls the connector again by itself when an attempt fails
MakeSendRequestService_poll_retrying(s) ==
    LET a == s.attempt IN
    CASE a.res = "pending" ->
           [out |-> "Pending", err |-> NoError, handle |-> 0, s |-> s]
      [] a.res = "err" ->
           [out |-> "Pending", err |-> NoError, handle |-> 0,
            s |-> MakeSendRequestService_call(s)]
      [] a.res = "ok" /\ a.stage = "io" ->
           [out |-> "Pending", err |-> NoError, handle |-> 0,
            s |-> [s EXCEPT !.attempt = [stage |-> "hs", res |-> "pending"],
                            !.hist.handshakes = @ + 1]]
      [] a.res = "ok" /\ a.stage = "hs" ->
           LET h == Len(s.conns) + 1
               t == [s EXCEPT !.attempt = NoAttempt, !.conns = Append(@, "open")]
           IN  [out |-> "Ok", err |-> NoError, handle |-> h, s |-> Execute(t, h)]

\* one poll of the future returned by call: [out, err, handle, s]
MakeSendRequestService_poll(s) ==
    LET a == s.attempt IN
    CASE a.res = "pending" ->
           [out |-> "Pending", err |-> NoError, handle |-> 0, s |-> s]
      [] a.res = "err" ->
           [out |-> "Err", err |-> IF a.stage = "io" THEN ConnectorError ELSE HyperError,
            handle |-> 0, s |-> [s EXCEPT !.attempt = NoAttempt]]
      [] a.res = "ok" /\ a.stage = "io" ->
           \* fut.await succeeded: builder.handshake(io) starts
           [out |-> "Pending", err |-> NoError, handle |-> 0,
            s |-> [s EXCEPT !.attempt = [stage |-> "hs", res |-> "pending"],
                            !.hist.handshakes = @ + 1]]
      [] a.res = "ok" /\ a.stage = "hs" ->
           \* handshake succeeded: spawn the driver, return the SendRequest
           LET h == Len(s.conns) + 1
               t == [s EXCEPT !.attempt = NoAttempt, !.conns = Append(@, "open")]
           IN  [out |-> "Ok", err |-> NoError, handle |-> h, s |-> Execute(t, h)]

\* ------------------------------------------------------- SendRequest
DispatcherReadiness == {"Ready", "Pending"}

\* poll_ready that drops the handle's error
SendRequest_poll_ready_swallow(c, d) == d

\* poll_ready: the hyper handle's own readiness; an error once the connection is closed
SendRequest_poll_ready(c, d) == IF c = "closed" THEN "Err" ELSE d

\* ------------------------------------------------- reconnect engine
PendingCall == calls # << >>

Reconnect_begin(s) ==
    [ MakeSendRequestService_call(s) EXCEPT !.reconnect.state = "Connecting",
                                            !.reconnect.handle = 0,
                                            !.reconnect.error = NoError ]

\* readiness check of the engine: [res, by, err, s]
Reconnect_poll_ready(s, d) ==
    LET r == s.reconnect IN
    CASE r.state = "Connected" ->
           LET q == SendRequest_poll_ready(s.conns[r.handle], d) IN
           IF q = "Err"
             THEN LET idle == [s EXCEPT !.reconnect.state = "Idle", !.reconnect.handle = 0]
                  IN  [res |-> "Pending", by |-> "engine", err |-> NoError, term |-> TRUE,
                       s |-> IF r.is_lazy /\ ~PendingCall THEN idle ELSE Reconnect_begin(idle)]
             ELSE [res |-> q, by |-> IF q = "Pending" THEN "dispatcher" ELSE "none",
                   err |-> NoError, term |-> FALSE, s |-> s]
      [] r.state \in {"Idle", "Failed"} ->
           [res |-> "Pending", by |-> "engine", err |-> NoError, term |-> FALSE,
            s |-> Reconnect_begin(s)]
      [] r.state = "Connecting" ->
           LET m == MakeSendRequestService_poll(s) IN
           CASE m.out = "Pending" ->
                  [res |-> "Pending", by |-> "engine", err |-> NoError, term |-> FALSE,
                   s |-> m.s]
             [] m.out = "Err" ->
                  [res |-> "Err", by |-> "engine", err |-> m.err, term |-> FALSE,
                   s |-> [m.s EXCEPT !.reconnect.state = "Failed", !.reconnect.error = m.err]]
             [] m.out = "Ok" ->
                  [res |-> d, by |-> IF d = "Pending" THEN "dispatcher" ELSE "none",
                   err |-> NoError, term |-> FALSE,
                   s |-> [m.s EXCEPT !.reconnect.state = "Connected",
                                     !.reconnect.handle = m.handle]]

\* --------------------------------------------------- policy layers
\* ConcurrencyLimit::poll_ready: [res, sem]
ConcurrencyLimit_poll_ready(m) ==
    IF m.permit THEN [res |-> "Ready", sem |-> m]
    ELSE IF m.avail > 0
           THEN [res |-> "Ready", sem |-> [avail |-> m.avail - 1, permit |-> TRUE]]
           ELSE [res |-> "Pending", sem |-> m]

\* RateLimit::poll_ready: [res, rate]
RateLimit_poll_ready(r, arg) ==
    IF r.state = "Ready" THEN [res |-> "Ready", rate |-> r]
    ELSE IF r.until > 0 THEN [res |-> "Pending", rate |-> r]
    ELSE [res |-> "Ready", rate |-> [state |-> "Ready", until |-> arg[2], rem |-> arg[1]]]

\* readiness check through the layers st (outermost first) down to the engine
RECURSIVE Stack_poll_ready(_, _, _)
Stack_poll_ready(st, s, d) ==
    IF st = << >> THEN Reconnect_poll_ready(s, d)
    ELSE LET l == Head(st) IN
         CASE l.name = "ConcurrencyLimit" ->
                LET c == ConcurrencyLimit_poll_ready(s.sem) IN
                IF c.res = "Ready"
                  THEN Stack_poll_ready(Tail(st), [s EXCEPT !.sem = c.sem], d)
                  ELSE [res |-> "Pending", by |-> "ConcurrencyLimit", err |-> NoError,
                        term |-> FALSE, s |-> s]
           [] l.name = "RateLimit" ->
                LET c == RateLimit_poll_ready(s.rate, l.arg) IN
                IF c.res = "Ready"
                  THEN Stack_poll_ready(Tail(st), [s EXCEPT !.rate = c.rate], d)
                  ELSE [res |-> "Pending", by |-> "RateLimit", err |-> NoError,
                        term |-> FALSE, s |-> s]
           [] OTHER -> Stack_poll_ready(Tail(st), s, d)

\* RateLimit::call: spends one unit of the budget of the current window
RateLimit_call(r, arg) ==
    LET until == IF r.until = 0 THEN arg[2] ELSE r.until
        rem == IF r.until = 0 THEN arg[1] ELSE r.rem
    IN  IF rem > 1 THEN [state |-> "Ready", until |-> until, rem |-> rem - 1]
        ELSE [state |-> "Limited", until |-> until, rem |-> 0]

\* ConcurrencyLimit::call: the permit moves from the service into the response future
ConcurrencyLimit_call(m) == [m EXCEPT !.permit = FALSE]

AddOrigin_call(req, origin) == [req EXCEPT !.origin = origin]

UserAgent_call(req, ua) ==
    IF ua = None THEN req ELSE [req EXCEPT !.user_agent = Unwrap(ua)]

\* GrpcTimeout::call: the deadline the inner future is raced against (ticks left)
GrpcTimeout_call(c, t) == [c EXCEPT !.deadline = t]

\* SendRequest::call that sends on the handle of the previous connection
SendRequest_call_stale(h, req, c) ==
    [c EXCEPT !.conn = IF h > 1 THEN h - 1 ELSE h, !.req = req, !.sends = @ + 1]

\* SendRequest::call: the request is sent on this handle's own connection
SendRequest_call(h, req, c) ==
    [c EXCEPT !.conn = h, !.req = req, !.sends = @ + 1]

\* the engine delegates a call to its current dispatcher
Reconnect_call(req, c, s) == SendRequest_call(s.reconnect.handle, req, c)

NewCall ==
    [ req |-> CallerRequest, conn |-> 0, st |-> "inflight", err |-> NoError,
      deadline |-> None, permit |-> FALSE, sends |-> 0, waited |-> lastReady.waited ]

\* call through the layers st (outermost first) down to the engine: [call, s]
RECURSIVE Stack_call(_, _, _, _)
Stack_call(st, req, c, s) ==
    IF st = << >> THEN [call |-> Reconnect_call(req, c, s), s |-> s]
    ELSE LET l == Head(st) IN
         CASE l.name = "AddOrigin" ->
                Stack_call(Tail(st), AddOrigin_call(req, l.arg), c, s)
           [] l.name = "UserAgent" ->
                Stack_call(Tail(st), UserAgent_call(req, l.arg), c, s)
           [] l.name = "GrpcTimeout" ->
                Stack_call(Tail(st), req, GrpcTimeout_call(c, l.arg), s)
           [] l.name = "ConcurrencyLimit" ->
                Stack_call(Tail(st), req, [c EXCEPT !.permit = s.sem.permit],
                           [s EXCEPT !.sem = ConcurrencyLimit_call(@)])
           [] l.name = "RateLimit" ->
                Stack_call(Tail(st), req, c, [s EXCEPT !.rate = RateLimit_call(@, l.arg)])

\* Connection::poll_ready that turns a limiter's Pending into an error
Connection_poll_ready_shed(s, d) ==
    LET r == Stack_poll_ready(Stack(endpoint), s, d) IN
    IF r.res = "Pending" /\ r.by \in {"ConcurrencyLimit", "RateLimit"}
      THEN [r EXCEPT !.res = "Err", !.err = Error_new("Transport")]
      ELSE r

\* Connection::poll_ready and Connection::call delegate to the boxed stack
Connection_poll_ready(s, d) == Stack_poll_ready(Stack(endpoint), s, d)

\* Connection::call whose deadline is shortened by the ticks its caller has waited
\* at a limiter
Connection_call_less_wait(req, s) ==
    LET r == Stack_call(Stack(endpoint), req, NewCall, s) IN
    IF r.call.deadline # None /\ r.call.waited > 0
      THEN [r EXCEPT !.call.deadline =
                        Some(IF Unwrap(@) > r.call.waited THEN Unwrap(@) - r.call.waited
                                                          ELSE 1)]
      ELSE r

Connection_call(req, s) == Stack_call(Stack(endpoint), req, NewCall, s)

\* ------------------------------------------------ response futures
\* a SendRequest future that sends the request again, on the newest connection
SendRequest_await_retry(c, hres) ==
    IF hres = "err" /\ c.conn < Len(conns)
      THEN [c EXCEPT !.conn = Len(conns), !.sends = @ + 1]
      ELSE [c EXCEPT !.st = hres, !.err = IF hres = "err" THEN HyperError ELSE NoError]

\* the SendRequest future: fut.await.map_err(Into::into)
SendRequest_await(c, hres) ==
    [c EXCEPT !.st = hres, !.err = IF hres = "err" THEN HyperError ELSE NoError]

\* the GrpcTimeout future: the inner future first, then the sleep
GrpcTimeout_expired(c) ==
    c.st = "inflight" /\ c.deadline # None /\ Unwrap(c.deadline) = 0

GrpcTimeout_poll(c) ==
    IF GrpcTimeout_expired(c)
      THEN [c EXCEPT !.st = "timeout", !.err = Error_from_source(TimeoutExpired)]
      ELSE c

\* one clock tick for the sleep of a response future
Elapse(c) ==
    IF c.deadline # None THEN [c EXCEPT !.deadline = Some(Unwrap(@) - 1)] ELSE c

\* dropping a response future drops the permit it holds: the slot returns to the semaphore
RECURSIVE ReleaseAll(_, _)
ReleaseAll(m, cs) ==
    IF cs = << >> THEN m
    ELSE ReleaseAll(IF Head(cs).permit THEN [m EXCEPT !.avail = @ + 1] ELSE m, Tail(cs))

Inflight(cs) == SelectSeq(cs, LAMBDA c : c.st = "inflight")
Finished(cs) == SelectSeq(cs, LAMBDA c : c.st # "inflight")

\* the futures cs after a step: the finished ones are handed to their callers and dropped
Settle(cs) ==
    /\ calls' = Inflight(cs)
    /\ done' = Finished(cs)
    /\ sem' = ReleaseAll(sem, Finished(cs))

\* ---------------------------------------------------------- actions
Limiters == {"ConcurrencyLimit", "RateLimit"}

Install(s) ==
    /\ sem' = s.sem
    /\ rate' = s.rate
    /\ reconnect' = s.reconnect
    /\ attempt' = s.attempt
    /\ conns' = s.conns
    /\ executed' = s.executed
    /\ hist' = s.hist

\* before Connection::connect or Connection::lazy, for an endpoint of es
Unbuilt(es) ==
    /\ endpoint \in es
    /\ chan = "unbuilt"
    /\ reconnect = Reconnect_new(FALSE)
    /\ attempt = NoAttempt
    /\ conns = << >>
    /\ executed = << >>
    /\ sem = ConcurrencyLimit_new(0)
    /\ rate = [state |-> "Ready", until |-> 0, rem |-> 0]
    /\ calls = << >>
    /\ done = << >>
    /\ lastReady = NoReady
    /\ hist = [connectorCalls |-> 0, handshakes |-> 0, polled |-> FALSE]

NoErrorBuilt == error = NoError /\ inspected = None

NoQuotaFailure ==
    /\ quota_failure = [violations |-> << >>]
    /\ created = << >> /\ added = << >>
    /\ gen_any = None /\ br_details = None

Init ==
    /\ Unbuilt(EndpointInputs)
    /\ stopwatch = FALSE
    /\ NoErrorBuilt
    /\ NoQuotaFailure

\* Connection::lazy(connector, endpoint)
Connection_lazy ==
    /\ chan = "unbuilt"
    /\ Install(Connection_new(endpoint, TRUE))
    /\ chan' = "built"
    /\ done' = << >>
    /\ UNCHANGED <<endpoint, calls, lastReady>>
    /\ UNCHANGED <<stopwatch, errorVars, quotaVars>>

\* Connection::connect that returns the service without awaiting its readiness
Connection_connect_unready ==
    /\ chan = "unbuilt"
    /\ Install(Connection_new(endpoint, FALSE))
    /\ chan' = "built"
    /\ done' = << >>
    /\ UNCHANGED <<endpoint, calls, lastReady>>
    /\ UNCHANGED <<stopwatch, errorVars, quotaVars>>

\* Connection::connect(connector, endpoint): new(.., false), then ready_oneshot
Connection_connect ==
    /\ chan = "unbuilt"
    /\ Install(Connection_new(endpoint, FALSE))
    /\ chan' = "awaiting"
    /\ done' = << >>
    /\ UNCHANGED <<endpoint, calls, lastReady>>
    /\ UNCHANGED <<stopwatch, errorVars, quotaVars>>

\* ready_oneshot: resolves with the service once it is ready, or with its error
ReadyOneshot(res) ==
    CASE res = "Ready" -> "built"
      [] res = "Err" -> "failed"
      [] OTHER -> "awaiting"

\* a readiness check: by ready_oneshot while connect is awaited, by a caller afterwards
PollReady ==
    /\ chan \in {"awaiting", "built"}
    /\ \E d \in DispatcherReadiness :
         LET r == Connection_poll_ready(Svc, d) IN
         /\ Install([r.s EXCEPT !.hist.polled = TRUE])
         /\ lastReady' = [res |-> r.res, by |-> r.by, err |-> r.err, term |-> r.term,
                          waited |-> IF r.res = "Err" THEN 0 ELSE lastReady.waited]
         /\ chan' = IF chan = "awaiting" THEN ReadyOneshot(r.res) ELSE chan
    /\ done' = << >>
    /\ UNCHANGED <<endpoint, calls>>
    /\ UNCHANGED <<stopwatch, errorVars, quotaVars>>

\* Connection::call(req), after a readiness check that reported Ready
Call ==
    /\ chan = "built"
    /\ lastReady.res = "Ready"
    /\ Len(calls) < MaxCalls
    /\ LET r == Connection_call(CallerRequest, Svc) IN
         /\ Install(r.s)
         /\ calls' = Append(calls, r.call)
    /\ lastReady' = NoReady
    /\ done' = << >>
    /\ UNCHANGED <<endpoint, chan>>
    /\ UNCHANGED <<stopwatch, errorVars, quotaVars>>

\* the connector's future resolves
ConnectorResolve ==
    /\ attempt.stage = "io" /\ attempt.res = "pending"
    /\ \E r \in {"ok", "err"} :
         /\ r = "err" => hist.connectorCalls < MaxAttempts
         /\ attempt' = [attempt EXCEPT !.res = r]
    /\ done' = << >>
    /\ UNCHANGED <<endpoint, chan, reconnect, conns, executed, sem, rate, calls,
                   lastReady, hist>>
    /\ UNCHANGED <<stopwatch, errorVars, quotaVars>>

\* the handshake on the obtained stream resolves
HandshakeResolve ==
    /\ attempt.stage = "hs" /\ attempt.res = "pending"
    /\ \E r \in {"ok", "err"} :
         /\ r = "err" => hist.connectorCalls < MaxAttempts
         /\ attempt' = [attempt EXCEPT !.res = r]
    /\ done' = << >>
    /\ UNCHANGED <<endpoint, chan, reconnect, conns, executed, sem, rate, calls,
                   lastReady, hist>>
    /\ UNCHANGED <<stopwatch, errorVars, quotaVars>>

\* the driver task of connection h terminates, cleanly or with an error: the
\* connection is gone
DriverExit ==
    /\ hist.connectorCalls < MaxAttempts
    /\ \E h \in 1..Len(conns), res \in {"ok", "err"} :
         /\ conns[h] = "open"
         /\ conns' = [conns EXCEPT ![h] = "closed"]
         /\ executed' = [executed EXCEPT ![h].out = Some(ConnectionTask(res).out)]
    /\ done' = << >>
    /\ UNCHANGED <<endpoint, chan, reconnect, attempt, sem, rate, calls,
                   lastReady, hist>>
    /\ UNCHANGED <<stopwatch, errorVars, quotaVars>>

\* the exchange of call i completes with a response
Respond ==
    /\ \E i \in 1..Len(calls) :
         /\ conns[calls[i].conn] = "open"
         /\ Settle([calls EXCEPT ![i] = SendRequest_await(@, "ok")])
    /\ UNCHANGED <<endpoint, chan, reconnect, attempt, conns, executed, rate,
                   lastReady, hist>>
    /\ UNCHANGED <<stopwatch, errorVars, quotaVars>>

\* the exchange of call i fails (always the case once its connection is closed)
CallFails ==
    /\ \E i \in 1..Len(calls) :
         Settle([calls EXCEPT ![i] = SendRequest_await(@, "err")])
    /\ UNCHANGED <<endpoint, chan, reconnect, attempt, conns, executed, rate,
                   lastReady, hist>>
    /\ UNCHANGED <<stopwatch, errorVars, quotaVars>>

\* the caller drops the future of call i before it has resolved
DropCall ==
    /\ \E i \in 1..Len(calls) :
         Settle([calls EXCEPT ![i].st = "dropped"])
    /\ UNCHANGED <<endpoint, chan, reconnect, attempt, conns, executed, rate,
                   lastReady, hist>>
    /\ UNCHANGED <<stopwatch, errorVars, quotaVars>>

TimerPending ==
    \/ \E i \in 1..Len(calls) : calls[i].deadline # None
    \/ rate.until > 0

\* time passes; the timers that fire wake their futures, which are polled
Tick ==
    /\ TimerPending
    /\ Settle([i \in 1..Len(calls) |-> GrpcTimeout_poll(Elapse(calls[i]))])
    /\ rate' = [rate EXCEPT !.until = IF @ > 0 THEN @ - 1 ELSE 0]
    /\ lastReady' = IF /\ lastReady.res = "Pending" /\ lastReady.by \in Limiters
                         /\ stopwatch
                      THEN [lastReady EXCEPT !.waited = @ + 1]
                      ELSE lastReady
    /\ UNCHANGED <<endpoint, chan, reconnect, attempt, conns, executed, hist>>
    /\ UNCHANGED <<stopwatch, errorVars, quotaVars>>

Next ==
    \/ Connection_lazy
    \/ Connection_connect
    \/ PollReady
    \/ Call
    \/ ConnectorResolve
    \/ HandshakeResolve
    \/ DriverExit
    \/ Respond
    \/ CallFails
    \/ DropCall
    \/ Tick

Spec == Init /\ [][Next]_vars

\* the endpoints with a per-call timeout and a limiter (and no header override),
\* watched with the stopwatch that counts the ticks a caller spends Pending at a
\* limiter
TimedEndpoints ==
    { e \in EndpointInputs :
        /\ e.timeout # None /\ e.origin = None
        /\ e.concurrency_limit # None \/ e.rate_limit # None }

TimedInit ==
    /\ Unbuilt(TimedEndpoints)
    /\ stopwatch = TRUE
    /\ NoErrorBuilt
    /\ NoQuotaFailure

TimedSpec == TimedInit /\ [][Next]_vars

\* ---------------------------------------------------------- claims
EngineReached(r) == r.by \notin Limiters

\* C1: building the channel with Connection::lazy calls neither the connector nor the
\* handshake; on a lazy channel the connector is only ever called by a readiness
\* check, so nothing is attempted before the first one.
C1_LazyBuildsWithoutConnecting ==
    [][ /\ Connection_lazy =>
              /\ hist'.connectorCalls = 0 /\ hist'.handshakes = 0
              /\ attempt' = NoAttempt /\ reconnect'.state = "Idle" /\ conns' = << >>
        /\ (reconnect'.is_lazy /\ ~hist'.polled) =>
              hist'.connectorCalls = 0 /\ hist'.handshakes = 0
        /\ (reconnect'.is_lazy /\ hist'.connectorCalls # hist.connectorCalls) => PollReady
      ]_vars

C1_Witness ==
    /\ reconnect.is_lazy /\ chan = "built" /\ hist.polled
    /\ hist.connectorCalls = 1 /\ reconnect.state = "Connecting"

\* C2: Connection::connect resolves with a channel only in a readiness check that
\* reports Ready, with the engine connected and every attempt made so far
\* successful; a readiness check that reports the failure of the first attempt
\* resolves connect with that error (so does the check that finds the first attempt
\* failed), and no channel exists afterwards.
C2_EagerResolvesOnceReady ==
    [][ /\ (~reconnect'.is_lazy /\ chan # "built" /\ chan' = "built") =>
              /\ chan = "awaiting" /\ PollReady
              /\ lastReady'.res = "Ready"
              /\ reconnect'.state = "Connected"
              /\ conns'[reconnect'.handle] = "open"
              /\ hist'.connectorCalls >= 1
              /\ hist'.handshakes = hist'.connectorCalls
              /\ Len(conns') = hist'.connectorCalls
        /\ (chan = "awaiting" /\ PollReady /\ lastReady'.res = "Err") =>
              chan' = "failed" /\ lastReady'.err # NoError
        /\ (chan = "awaiting" /\ PollReady /\ hist.connectorCalls = 1 /\ attempt.res = "err") =>
              chan' = "failed" /\ lastReady'.res = "Err" /\ conns' = << >>
        /\ chan = "failed" => chan' = "failed" /\ calls' = << >>
      ]_vars

C2_Witness ==
    /\ ~reconnect.is_lazy /\ chan = "built" /\ lastReady.res = "Ready"
    /\ reconnect.state = "Connected" /\ hist.handshakes = 1

C4_CallsUseCurrentHandle ==
    [][ /\ (reconnect'.state = "Connected") = (reconnect'.handle # 0)
        /\ reconnect'.handle # 0 => reconnect'.handle = Len(conns')
        /\ Call =>
              /\ calls'[Len(calls')].conn = Len(conns)
              /\ calls'[Len(calls')].conn = reconnect.handle
              /\ calls'[Len(calls')].sends = 1
      ]_vars

C4_Witness ==
    /\ Len(conns) >= 2 /\ reconnect.handle = Len(conns)
    /\ calls # << >> /\ calls[Len(calls)].conn = Len(conns)

Limit == Unwrap(endpoint.concurrency_limit)
Constructed == chan # "unbuilt"

\* C5: with a concurrency limit L the outstanding calls never exceed L; a readiness
\* check made while fewer than L calls are outstanding is admitted by the limiter
\* (it takes a slot), and one made while L calls are outstanding reports Pending
\* from the limiter, until a call has finished.
C5_ConcurrencyLimitBounds ==
    [][ (endpoint.concurrency_limit # None /\ Constructed) =>
          /\ Len(calls') <= Limit
          /\ (PollReady /\ Len(calls) < Limit) =>
                lastReady'.by # "ConcurrencyLimit" /\ sem'.permit
          /\ (PollReady /\ Len(calls) = Limit) =>
                /\ lastReady'.res = "Pending" /\ lastReady'.by = "ConcurrencyLimit"
                /\ reconnect' = reconnect
      ]_vars

C5_Witness ==
    /\ endpoint.concurrency_limit # None /\ Limit = 2 /\ Len(calls) = 2
    /\ lastReady.res = "Pending" /\ lastReady.by = "ConcurrencyLimit"

\* C6: the slots of the limiter are conserved: free slots, the slot held by the
\* service and the slots held by outstanding calls always add up to the limit, so
\* each call that ends (response, error, drop, timeout) has given back exactly its
\* one slot; with no call outstanding the limiter cannot report Pending.
C6_SlotsConserved ==
    (endpoint.concurrency_limit # None /\ Constructed) =>
        /\ sem.avail >= 0
        /\ sem.avail + (IF sem.permit THEN 1 ELSE 0) + Len(calls) = Limit
        /\ \A i \in 1..Len(calls) : calls[i].permit
        /\ \A i \in 1..Len(done) : done[i].permit
        /\ calls = << >> => (sem.permit \/ sem.avail > 0)

C6_Witness ==
    /\ endpoint.concurrency_limit # None /\ calls = << >> /\ sem.avail = Limit
    /\ Len(done) = 2 /\ done[1].st = "timeout" /\ done[2].st = "timeout"

\* C7: with a per-call timeout configured every outstanding call has a deadline that
\* has not been reached yet, a call ends no later than its deadline, and the call
\* that is still outstanding at its deadline ends there with a Transport error.
C7_TimeoutBoundsTheCall ==
    endpoint.timeout # None =>
        /\ \A i \in 1..Len(calls) :
              /\ calls[i].deadline # None
              /\ Unwrap(calls[i].deadline) >= 1
              /\ Unwrap(calls[i].deadline) <= Unwrap(endpoint.timeout)
        /\ \A i \in 1..Len(done) :
              /\ done[i].deadline # None /\ Unwrap(done[i].deadline) >= 0
              /\ (Unwrap(done[i].deadline) = 0) = (done[i].st = "timeout")
              /\ done[i].st = "timeout" =>
                    done[i].err.kind = "Transport" /\ done[i].err.source # None

C7_Witness ==
    /\ endpoint.timeout # None /\ done # << >>
    /\ done[1].st = "timeout" /\ conns[done[1].conn] = "open"

\* C8: every request the engine hands to a dispatcher carries the endpoint's origin
\* override when there is one and the endpoint's uri otherwise, and the configured
\* user agent when there is one, whatever other layers are in the stack.
ExpectedOrigin ==
    IF endpoint.origin # None THEN Unwrap(endpoint.origin) ELSE endpoint.uri

RequestAsConfigured(c) ==
    /\ c.req.origin = ExpectedOrigin
    /\ endpoint.user_agent # None => c.req.user_agent = Unwrap(endpoint.user_agent)
    /\ endpoint.user_agent = None => c.req.user_agent = CallerRequest.user_agent

C8_HeadersReachEngine ==
    /\ \A i \in 1..Len(calls) : RequestAsConfigured(calls[i])
    /\ \A i \in 1..Len(done) : RequestAsConfigured(done[i])

C8_Witness ==
    /\ endpoint.origin # None /\ endpoint.rate_limit # None
    /\ endpoint.concurrency_limit # None /\ endpoint.timeout # None
    /\ calls # << >> /\ calls[1].req.origin = OriginOverride
    /\ calls[1].req.user_agent = Agent

\* C9: a call whose connection has closed never ends with a response; every request
\* is sent to a dispatcher exactly once, stays on the connection it was sent on, and
\* a newly established connection receives none of the outstanding requests.
C9_NoRetryAcrossReconnect ==
    [][ /\ \A i \in 1..Len(done') :
              /\ done'[i].sends = 1
              /\ conns[done'[i].conn] = "closed" =>
                    /\ done'[i].st \in {"err", "timeout", "dropped"}
                    /\ done'[i].st = "err" => done'[i].err # NoError
        /\ \A i \in 1..Len(calls') : calls'[i].sends = 1
        /\ Len(calls') >= Len(calls) =>
              \A i \in 1..Len(calls) : calls'[i].conn = calls[i].conn
        /\ Len(conns') > Len(conns) =>
              /\ calls' = calls
              /\ \A i \in 1..Len(calls) : calls[i].conn < Len(conns')
      ]_vars

C9_Witness ==
    /\ Len(conns) = 2 /\ conns[2] = "open" /\ reconnect.handle = 2
    /\ Len(calls) = 1 /\ calls[1].conn = 1
    /\ Len(done) = 1 /\ done[1].conn = 1 /\ done[1].st = "err"

\* C10: a readiness check that finds the concurrency limit or the rate budget
\* exhausted reports Pending; a readiness check reports an error only from the
\* engine, with the error of a connect attempt, and calls end in error only with
\* the dispatcher's error or the timeout's.
LimiterExhausted ==
    \/ /\ endpoint.concurrency_limit # None
       /\ sem.avail = 0 /\ ~sem.permit
    \/ /\ endpoint.rate_limit # None
       /\ rate.state = "Limited" /\ rate.until > 0

C10_ExhaustionIsPending ==
    [][ /\ (PollReady /\ LimiterExhausted) =>
              /\ lastReady'.res = "Pending" /\ lastReady'.by \in Limiters
              /\ lastReady'.err = NoError
        /\ lastReady'.by \in Limiters => lastReady'.res = "Pending"
        /\ lastReady'.res = "Err" =>
              lastReady'.by = "engine" /\ lastReady'.err \in {ConnectorError, HyperError}
        /\ \A i \in 1..Len(done') :
              done'[i].err \in {NoError, HyperError, Error_from_source(TimeoutExpired)}
      ]_vars

C10_Witness ==
    /\ endpoint.rate_limit # None /\ rate.state = "Limited" /\ rate.until > 0
    /\ lastReady.res = "Pending" /\ lastReady.by = "RateLimit"

\* --------------------------------------------------------------------
\* a readiness check that gets through the limiters and polls the connect future
PollsAttempt == PollReady /\ lastReady'.by \notin Limiters /\ reconnect.state = "Connecting"

\* C11 as claimed: when the handshake fails, the connect operation returns an error
\* of kind Transport whose cause is the handshake's error.
C11_HandshakeErrorIsTransport ==
    [][ (PollsAttempt /\ attempt.stage = "hs" /\ attempt.res = "err") =>
          /\ MakeSendRequestService_poll(Svc).err.kind = "Transport"
          /\ MakeSendRequestService_poll(Svc).err.source = Some(HyperError)
          /\ lastReady'.err.kind = "Transport"
      ]_vars

\* C11, amended: when the handshake fails, the connect operation returns the
\* handshake's own error, boxed as it is (no Error of kind Transport is built
\* around it), and no dispatcher handle; that error is what the readiness check
\* that polled the attempt reports.
C11_HandshakeErrorIsReturnedAsIs ==
    [][ (PollsAttempt /\ attempt.stage = "hs" /\ attempt.res = "err") =>
          /\ MakeSendRequestService_poll(Svc).out = "Err"
          /\ MakeSendRequestService_poll(Svc).err = HyperError
          /\ MakeSendRequestService_poll(Svc).err.kind # "Transport"
          /\ MakeSendRequestService_poll(Svc).handle = 0
          /\ lastReady'.res = "Err" /\ lastReady'.err = HyperError
          /\ conns' = conns
      ]_vars

C11_Witness ==
    /\ lastReady.res = "Err" /\ lastReady.err = HyperError
    /\ reconnect.state = "Failed" /\ hist.handshakes = 1 /\ conns = << >>

\* C12: the engine enters Failed only inside a readiness check that polled a failed
\* connect or handshake attempt, and that check returns the very error the engine
\* stores; the first readiness check that reaches the engine after the failure is
\* that check; until it is made the failed attempt stays as it is (no other step
\* consumes, reports or clears the error), and a step that finishes calls hands
\* none of them the attempt's error.
C12_AttemptFailureReportedByReadiness ==
    [][ /\ (reconnect'.state = "Failed" /\ reconnect' # reconnect) =>
              /\ PollReady /\ reconnect.state = "Connecting" /\ attempt.res = "err"
              /\ lastReady'.res = "Err" /\ lastReady'.by = "engine"
              /\ lastReady'.err = reconnect'.error
              /\ reconnect'.error = (IF attempt.stage = "io" THEN ConnectorError
                                                           ELSE HyperError)
        /\ (attempt.res = "err" /\ PollsAttempt) =>
              /\ lastReady'.res = "Err" /\ reconnect'.state = "Failed"
              /\ attempt' = NoAttempt
        /\ (attempt.res = "err" /\ ~PollsAttempt) =>
              /\ attempt' = attempt /\ reconnect' = reconnect
              /\ lastReady'.res # "Err"
        /\ done' # << >> =>
              /\ attempt' = attempt /\ reconnect' = reconnect
              /\ \A i \in 1..Len(done') : done'[i].err # ConnectorError
        /\ (lastReady'.res = "Err" /\ lastReady' # lastReady) => PollReady
      ]_vars

C12_Witness ==
    /\ chan = "built" /\ reconnect.is_lazy
    /\ reconnect.state = "Failed" /\ reconnect.error = ConnectorError
    /\ lastReady.res = "Err" /\ lastReady.err = ConnectorError
    /\ attempt = NoAttempt

\* ==================================================== transport::Error
\* enum Kind
Kinds == {"Transport", "InvalidUri", "InvalidUserAgent", "InvalidTlsConfigForUds"}

Error_new_invalid_uri == Error_new("InvalidUri")
Error_new_invalid_user_agent == Error_new("InvalidUserAgent")

\* Error::description: the text of the kind
Error_description(e) ==
    CASE e.kind = "Transport" -> "transport error"
      [] e.kind = "InvalidUri" -> "invalid URI"
      [] e.kind = "InvalidUserAgent" -> "user agent is not a valid header value"
      [] e.kind = "InvalidTlsConfigForUds" ->
           "cannot apply TLS config for unix domain socket"

\* impl fmt::Display for Error
Error_fmt(e) == Error_description(e)

\* impl StdError for Error: source()
Error_source(e) == IF e.source # None THEN Some(Unwrap(e.source)) ELSE None

\* the display text of any error value: a transport::Error shows its kind's text,
\* an error of a collaborator its own
Display(x) == IF x.kind \in Kinds THEN Error_fmt(x) ELSE x.kind

\* the causes handed to with and from_source: errors of the collaborators, and
\* transport errors themselves (with and without a cause of their own)
Causes ==
    {HyperError, ConnectorError, TimeoutExpired}
        \cup {Error_new(k) : k \in Kinds}
        \cup {Error_from_source(c) : c \in {HyperError, ConnectorError, TimeoutExpired}}

\* Error::new(kind)
NewError ==
    /\ \E k \in Kinds : error' = Error_new(k)
    /\ UNCHANGED <<inspected, channelVars, stopwatch, quotaVars>>

\* error.with(source)
WithSource(c) ==
    /\ error # NoError
    /\ error' = Error_with(error, c)
    /\ UNCHANGED <<inspected, channelVars, stopwatch, quotaVars>>

GiveSource == \E c \in Causes : WithSource(c)

\* Error::from_source(source)
FromSource ==
    /\ \E c \in Causes : error' = Error_from_source(c)
    /\ UNCHANGED <<inspected, channelVars, stopwatch, quotaVars>>

\* Error::new_invalid_uri()
NewInvalidUri ==
    /\ error' = Error_new_invalid_uri
    /\ UNCHANGED <<inspected, channelVars, stopwatch, quotaVars>>

\* Error::new_invalid_user_agent()
NewInvalidUserAgent ==
    /\ error' = Error_new_invalid_user_agent
    /\ UNCHANGED <<inspected, channelVars, stopwatch, quotaVars>>

\* format!("{error}") and error.source(), the latter shown through its own Display
Inspect ==
    /\ error # NoError
    /\ inspected' = Some([ of |-> error,
                           display |-> Error_fmt(error),
                           source |-> IF Error_source(error) # None
                                        THEN Some(Display(Unwrap(Error_source(error))))
                                        ELSE None ])
    /\ UNCHANGED <<error, channelVars, stopwatch, quotaVars>>

AnyEndpoint == CHOOSE e \in EndpointInputs : TRUE

ErrorInit ==
    /\ Unbuilt({AnyEndpoint})
    /\ stopwatch = FALSE
    /\ NoErrorBuilt
    /\ NoQuotaFailure

ErrorNext ==
    \/ NewError
    \/ GiveSource
    \/ FromSource
    \/ NewInvalidUri
    \/ NewInvalidUserAgent
    \/ Inspect

ErrorSpec == ErrorInit /\ [][ErrorNext]_vars

\* C13: giving an error a cause leaves its kind and its Display text as they were
\* (the text is the kind's, whatever the cause), and source() then exposes a cause
\* whose display text is that of the cause given; an error built from a kind alone
\* has that kind and exposes no source; what an inspection shows is the text of the
\* inspected error's kind and the text of its cause, if it has one.
C13_ErrorRoundTrip ==
    [][ /\ \A c \in Causes :
              WithSource(c) =>
                 /\ error'.kind = error.kind
                 /\ Error_fmt(error') = Error_fmt(error)
                 /\ Error_source(error') # None
                 /\ Display(Unwrap(Error_source(error'))) = Display(c)
        /\ \A k \in Kinds :
              (NewError /\ error'.kind = k) =>
                 /\ Error_source(error') = None
                 /\ Error_fmt(error') = Error_fmt(Error_with(Error_new(k), HyperError))
        /\ Inspect =>
              LET i == Unwrap(inspected') IN
              /\ i.display = Error_fmt(Error_new(error.kind))
              /\ (i.source = None) = (error.source = None)
              /\ error.source # None => i.source = Some(Display(Unwrap(error.source)))
      ]_vars

C13_Witness ==
    /\ error.kind = "InvalidUri" /\ error.source = Some(ConnectorError)
    /\ inspected # None
    /\ Unwrap(inspected).of = error
    /\ Unwrap(inspected).display = "invalid URI"
    /\ Unwrap(inspected).source = Some("C::Error")

\* ======================================================= QuotaFailure
\* struct QuotaViolation, #[derive(Default)]; quota_dimensions is a set of <<key, value>>
DefaultViolation ==
    [ subject |-> "", description |-> "", api_service |-> "", quota_metric |-> "",
      quota_id |-> "", quota_dimensions |-> {}, quota_value |-> 0,
      futura_quota_value |-> None ]

\* pb::quota_failure::Violation, the message of error_details.proto
DefaultPbViolation ==
    [ subject |-> "", description |-> "", api_service |-> "", quota_metric |-> "",
      quota_id |-> "", quota_dimensions |-> {}, quota_value |-> 0,
      future_quota_value |-> None ]

\* QuotaViolation::new(subject, description)
QuotaViolation_new(subject, description) ==
    [DefaultViolation EXCEPT !.subject = subject, !.description = description]

\* impl From<pb::quota_failure::Violation> for QuotaViolation
QuotaViolation_from_pb(value) ==
    [ subject |-> value.subject, description |-> value.description,
      api_service |-> value.api_service, quota_metric |-> value.quota_metric,
      quota_id |-> value.quota_id, quota_dimensions |-> value.quota_dimensions,
      quota_value |-> value.quota_value,
      futura_quota_value |-> value.future_quota_value ]

\* a conversion that leaves the optional future value behind
QuotaViolation_into_pb_no_future(value) ==
    [ subject |-> value.subject, description |-> value.description,
      api_service |-> value.api_service, quota_metric |-> value.quota_metric,
      quota_id |-> value.quota_id, quota_dimensions |-> value.quota_dimensions,
      quota_value |-> value.quota_value,
      future_quota_value |-> None ]

\* impl From<QuotaViolation> for pb::quota_failure::Violation
QuotaViolation_into_pb(value) ==
    [ subject |-> value.subject, description |-> value.description,
      api_service |-> value.api_service, quota_metric |-> value.quota_metric,
      quota_id |-> value.quota_id, quota_dimensions |-> value.quota_dimensions,
      quota_value |-> value.quota_value,
      future_quota_value |-> value.futura_quota_value ]

\* impl From<pb::QuotaFailure> for QuotaFailure, impl From<QuotaFailure> for pb::QuotaFailure
QuotaFailure_from_pb(value) ==
    [violations |-> [i \in 1..Len(value.violations) |->
                        QuotaViolation_from_pb(value.violations[i])]]
QuotaFailure_into_pb(value) ==
    [violations |-> [i \in 1..Len(value.violations) |->
                        QuotaViolation_into_pb(value.violations[i])]]

TYPE_URL == "type.googleapis.com/google.rpc.QuotaFailure"

\* QuotaFailure::new(violations), QuotaFailure::with_violation(subject, description)
QuotaFailure_new(violations) == [violations |-> violations]
QuotaFailure_with_violation(subject, description) ==
    [violations |-> << QuotaViolation_new(subject, description) >>]

\* add_violation that puts the new violation in front
QuotaFailure_add_violation_front(self, subject, description) ==
    [self EXCEPT !.violations = << QuotaViolation_new(subject, description) >> \o @]

\* add_violation(&mut self, subject, description): violations.append(&mut vec![..])
QuotaFailure_add_violation(self, subject, description) ==
    [self EXCEPT !.violations = @ \o << QuotaViolation_new(subject, description) >>]

\* is_empty(&self): Vec::is_empty
QuotaFailure_is_empty(self) == Len(self.violations) = 0

\* ------------------------------------------ prost: Message::encode_to_vec
\* an encoded message is the sequence of its fields [field, value]; a field that
\* holds its default value is left out, an optional field that is set never is
StringField(name, x) == IF x = "" THEN << >> ELSE << [field |-> name, value |-> x] >>
Int64Field(name, x) == IF x = 0 THEN << >> ELSE << [field |-> name, value |-> x] >>
OptionalInt64Field(name, o) ==
    IF o = None THEN << >> ELSE << [field |-> name, value |-> Unwrap(o)] >>

\* the entries of a HashMap in one iteration order, and in the opposite one
RECURSIVE Iterate(_)
Iterate(m) ==
    IF m = {} THEN << >>
    ELSE LET p == CHOOSE x \in m : TRUE IN << p >> \o Iterate(m \ {p})
Reverse(s) == [i \in 1..Len(s) |-> s[Len(s) + 1 - i]]
IterationOrders == {"forward", "backward"}
Entries(m, order) == IF order = "forward" THEN Iterate(m) ELSE Reverse(Iterate(m))

\* a map field: one nested message [key, value] for each entry
MapField(name, entries) ==
    [i \in 1..Len(entries) |->
        [field |-> name,
         value |-> StringField("key", entries[i][1]) \o StringField("value", entries[i][2])]]

Encode_Violation(v, order) ==
    StringField("subject", v.subject)
      \o StringField("description", v.description)
      \o StringField("api_service", v.api_service)
      \o StringField("quota_metric", v.quota_metric)
      \o StringField("quota_id", v.quota_id)
      \o MapField("quota_dimensions", Entries(v.quota_dimensions, order))
      \o Int64Field("quota_value", v.quota_value)
      \o OptionalInt64Field("future_quota_value", v.future_quota_value)

Encode_QuotaFailure(m, order) ==
    [i \in 1..Len(m.violations) |->
        [field |-> "violations", value |-> Encode_Violation(m.violations[i], order)]]

\* ------------------------------------------------ prost: Message::decode
\* HashMap::insert: a later entry with the same key replaces the earlier one
MapInsert(m, k, v) == {p \in m : p[1] # k} \cup {<<k, v>>}

RECURSIVE Decode_Entry(_, _)
Decode_Entry(e, buf) ==
    IF buf = << >> THEN e
    ELSE Decode_Entry(IF Head(buf).field = "key" THEN <<Head(buf).value, e[2]>>
                                                 ELSE <<e[1], Head(buf).value>>,
                      Tail(buf))

RECURSIVE Merge_Violation(_, _)
Merge_Violation(v, buf) ==
    IF buf = << >> THEN v
    ELSE LET f == Head(buf) IN
         Merge_Violation(
           CASE f.field = "subject" -> [v EXCEPT !.subject = f.value]
             [] f.field = "description" -> [v EXCEPT !.description = f.value]
             [] f.field = "api_service" -> [v EXCEPT !.api_service = f.value]
             [] f.field = "quota_metric" -> [v EXCEPT !.quota_metric = f.value]
             [] f.field = "quota_id" -> [v EXCEPT !.quota_id = f.value]
             [] f.field = "quota_dimensions" ->
                  LET e == Decode_Entry(<<"", "">>, f.value)
                  IN  [v EXCEPT !.quota_dimensions = MapInsert(@, e[1], e[2])]
             [] f.field = "quota_value" -> [v EXCEPT !.quota_value = f.value]
             [] f.field = "future_quota_value" ->
                  [v EXCEPT !.future_quota_value = Some(f.value)],
           Tail(buf))

\* Result<pb::QuotaFailure, DecodeError>: every occurrence of the repeated field adds
\* one violation, decoded into a default message
Decode_QuotaFailure(buf) ==
    [ ok |-> TRUE,
      value |-> [violations |-> [i \in 1..Len(buf) |->
                                    Merge_Violation(DefaultPbViolation, buf[i].value)]] ]

\* impl IntoAny for QuotaFailure
QuotaFailure_into_any(self, order) ==
    [ type_url |-> TYPE_URL,
      value |-> Encode_QuotaFailure(QuotaFailure_into_pb(self), order) ]

\* impl FromAnyRef for QuotaFailure, impl FromAny for QuotaFailure
QuotaFailure_from_any_ref(any) ==
    LET decoded == Decode_QuotaFailure(any.value) IN
    IF decoded.ok
      THEN [ok |-> TRUE, value |-> QuotaFailure_from_pb(decoded.value)]
      ELSE [ok |-> FALSE, value |-> QuotaFailure_new(<< >>)]
QuotaFailure_from_any(any) == QuotaFailure_from_any_ref(any)

\* ------------------------------------------------------------ inputs
MaxViolations == 2
MaxAdds == 2

Subjects == {"", "clientip:<ip address>"}
Descriptions == {"", "description a"}

\* violations a QuotaFailure is created from: all fields default, the two fields
\* of QuotaViolation::new, every field set (the map with an empty value, the
\* optional value set to zero), and the map with the empty key
SampleViolations ==
    { DefaultViolation,
      QuotaViolation_new("project:<project id>", "description b"),
      [ subject |-> "s", description |-> "d", api_service |-> "api",
        quota_metric |-> "metric", quota_id |-> "id",
        quota_dimensions |-> {<<"region", "eu">>, <<"zone", "">>},
        quota_value |-> -1, futura_quota_value |-> Some(0) ],
      [DefaultViolation EXCEPT !.quota_value = 7, !.futura_quota_value = Some(9)],
      [DefaultViolation EXCEPT !.quota_dimensions = {<<"", "">>}] }

ViolationLists == UNION { [1..n -> SampleViolations] : n \in 0..MaxViolations }

\* ----------------------------------------------------------- actions
\* QuotaFailure::new(violations)
NewQuotaFailure ==
    /\ \E vs \in ViolationLists :
         /\ quota_failure' = QuotaFailure_new(vs)
         /\ created' = vs
    /\ added' = << >> /\ gen_any' = None /\ br_details' = None
    /\ UNCHANGED <<channelVars, stopwatch, errorVars>>

\* QuotaFailure::with_violation(subject, description)
WithViolation ==
    /\ \E s \in Subjects, d \in Descriptions :
         /\ quota_failure' = QuotaFailure_with_violation(s, d)
         /\ created' = quota_failure'.violations
    /\ added' = << >> /\ gen_any' = None /\ br_details' = None
    /\ UNCHANGED <<channelVars, stopwatch, errorVars>>

\* quota_failure.add_violation(subject, description)
AddViolation(s, d) ==
    /\ Len(added) < MaxAdds
    /\ quota_failure' = QuotaFailure_add_violation(quota_failure, s, d)
    /\ added' = Append(added, <<s, d>>)
    /\ gen_any' = None /\ br_details' = None
    /\ UNCHANGED <<created, channelVars, stopwatch, errorVars>>

AddAnyViolation == \E s \in Subjects, d \in Descriptions : AddViolation(s, d)

\* quota_failure.clone().into_any()
IntoAny ==
    /\ \E order \in IterationOrders :
         gen_any' = Some(QuotaFailure_into_any(quota_failure, order))
    /\ br_details' = None
    /\ UNCHANGED <<quota_failure, created, added, channelVars, stopwatch, errorVars>>

\* QuotaFailure::from_any(gen_any)
FromAny ==
    /\ gen_any # None
    /\ br_details' = Some(QuotaFailure_from_any(Unwrap(gen_any)))
    /\ UNCHANGED <<quota_failure, created, added, gen_any, channelVars, stopwatch,
                   errorVars>>

QuotaInit ==
    /\ Unbuilt({AnyEndpoint})
    /\ stopwatch = FALSE
    /\ NoErrorBuilt
    /\ NoQuotaFailure

QuotaNext ==
    \/ NewQuotaFailure
    \/ WithViolation
    \/ AddAnyViolation
    \/ IntoAny
    \/ FromAny

QuotaSpec == QuotaInit /\ [][QuotaNext]_vars

\* C14: the Any made by into_any has QuotaFailure::TYPE_URL as its type_url, and
\* from_any of it succeeds with a QuotaFailure that has as many violations as the
\* one encoded, each equal to the original at the same position in every field.
SameViolation(a, b) ==
    /\ a.subject = b.subject /\ a.description = b.description
    /\ a.api_service = b.api_service /\ a.quota_metric = b.quota_metric
    /\ a.quota_id = b.quota_id /\ a.quota_dimensions = b.quota_dimensions
    /\ a.quota_value = b.quota_value
    /\ a.futura_quota_value = b.futura_quota_value

C14_AnyRoundTrip ==
    /\ gen_any # None => Unwrap(gen_any).type_url = TYPE_URL
    /\ br_details # None =>
          /\ Unwrap(br_details).ok
          /\ Len(Unwrap(br_details).value.violations) = Len(quota_failure.violations)
          /\ \A i \in 1..Len(quota_failure.violations) :
                SameViolation(Unwrap(br_details).value.violations[i],
                              quota_failure.violations[i])

C14_Witness ==
    /\ br_details # None /\ Unwrap(br_details).ok
    /\ Len(quota_failure.violations) = 3
    /\ quota_failure.violations[1].futura_quota_value = Some(0)
    /\ quota_failure.violations[1].quota_dimensions = {<<"region", "eu">>, <<"zone", "">>}
    /\ quota_failure.violations[2] = DefaultViolation
    /\ quota_failure.violations[3].subject = "clientip:<ip address>"
    /\ Unwrap(br_details).value.violations[1].futura_quota_value = Some(0)
    /\ Len(Unwrap(gen_any).value[2].value) = 0

\* C19: a QuotaFailure created with n violations and given k add_violation calls
\* holds n + k violations: the n it was created with, unchanged, then one for each
\* call in the order of the calls, with the call's subject and description and
\* every other field at its default; is_empty is true exactly when there is none.
C19_AddViolationAppends ==
    /\ Len(quota_failure.violations) = Len(created) + Len(added)
    /\ \A i \in 1..Len(created) : quota_failure.violations[i] = created[i]
    /\ \A j \in 1..Len(added) :
          LET v == quota_failure.violations[Len(created) + j] IN
          /\ v.subject = added[j][1] /\ v.description = added[j][2]
          /\ v.api_service = "" /\ v.quota_metric = "" /\ v.quota_id = ""
          /\ v.quota_dimensions = {} /\ v.quota_value = 0
          /\ v.futura_quota_value = None
    /\ QuotaFailure_is_empty(quota_failure) = (Len(created) + Len(added) = 0)

C19_Witness ==
    /\ Len(created) = 2 /\ created[1].quota_value = 7 /\ Len(added) = 2
    /\ added[1] = <<"clientip:<ip address>", "description a">>
    /\ added[2] = <<"", "description a">>
    /\ Len(quota_failure.violations) = 4
    /\ ~QuotaFailure_is_empty(quota_failure)

\* ticks from the call of c to now (its result, for a finished call)
SinceCall(c) == Unwrap(endpoint.timeout) - Unwrap(c.deadline)

\* C15 as claimed: the ticks a caller spent Pending at an exhausted limiter count
\* against the deadline, so from the first readiness check to the result of the
\* call no more than the timeout passes.
C15_TimeoutBoundsFullWait ==
    endpoint.timeout # None =>
        \A i \in 1..Len(done) :
            done[i].waited + SinceCall(done[i]) <= Unwrap(endpoint.timeout)

\* C15, amended: the timeout bounds the wait from the call to its result. The
\* deadline is set by the call, to the full timeout however long its caller was
\* Pending at a limiter before; a finished call ended within the timeout of its
\* call, and so within its readiness wait plus the timeout of its caller's first
\* readiness check.
C15_TimeoutBoundsWaitSinceCall ==
    [][ endpoint.timeout # None =>
          /\ Call =>
                /\ calls'[Len(calls')].deadline = endpoint.timeout
                /\ calls'[Len(calls')].waited = lastReady.waited
          /\ \A i \in 1..Len(calls) :
                Len(calls') >= Len(calls) =>
                   /\ calls'[i].waited = calls[i].waited
                   /\ SinceCall(calls'[i]) \in {SinceCall(calls[i]), SinceCall(calls[i]) + 1}
          /\ \A i \in 1..Len(done') :
                /\ SinceCall(done'[i]) \in 0..Unwrap(endpoint.timeout)
                /\ done'[i].waited + SinceCall(done'[i])
                      <= done'[i].waited + Unwrap(endpoint.timeout)
      ]_vars

C15_Witness ==
    /\ endpoint.timeout # None /\ endpoint.concurrency_limit # None
    /\ done # << >> /\ done[1].st = "timeout" /\ done[1].waited = 2
    /\ done[1].waited + SinceCall(done[1]) = 2 * Unwrap(endpoint.timeout)

\* C16: the reconnect state changes only in a readiness check (a call delegates and
\* leaves the engine alone; the passing of time and the driver touch neither the
\* engine nor the attempt, the connector and the handshake only resolve the attempt
\* in flight); the connector is called only by a readiness check, once, when no
\* attempt is in flight, which is exactly when the engine is not Connecting; the
\* readiness check that finds the engine Failed starts one attempt at once and
\* reports Pending.
C16_ReconnectIsCallerDriven ==
    [][ /\ reconnect'.state # reconnect.state => PollReady
        /\ reconnect' # reconnect => PollReady \/ Connection_lazy
        /\ hist' # hist => PollReady
        /\ attempt' # attempt => PollReady \/ ConnectorResolve \/ HandshakeResolve
        /\ hist'.connectorCalls # hist.connectorCalls =>
              /\ PollReady
              /\ hist'.connectorCalls = hist.connectorCalls + 1
              /\ attempt = NoAttempt /\ attempt' = [stage |-> "io", res |-> "pending"]
              /\ reconnect.state # "Connecting" /\ reconnect'.state = "Connecting"
        /\ (reconnect'.state = "Connecting") = (attempt' # NoAttempt)
        /\ (PollReady /\ lastReady'.by \notin Limiters /\ reconnect.state = "Failed") =>
              /\ hist'.connectorCalls = hist.connectorCalls + 1
              /\ reconnect'.state = "Connecting"
              /\ lastReady'.res = "Pending"
      ]_vars

C16_Witness ==
    /\ chan = "built" /\ reconnect.state = "Connecting" /\ hist.connectorCalls = 2
    /\ conns = << >> /\ attempt = [stage |-> "io", res |-> "pending"]
    /\ lastReady.res = "Pending" /\ lastReady.by = "engine"

\* C17: a connection closes only by the end of its driver task, and on that step no
\* caller is handed anything: no readiness result, no call result, no result of
\* connect, and the engine and the connect attempt stay as they are; the output of
\* every finished driver task is the unit value, whether it ended with an error or
\* not. The closed connection shows only afterwards: the readiness check that
\* finds the current handle's connection closed reports no error of the task (the
\* engine goes on to reconnect), and a call on that handle ends with the
\* dispatcher's error.
C17_DriverErrorReachesNoCaller ==
    [][ /\ (\E h \in 1..Len(conns) : conns'[h] # conns[h]) =>
              /\ DriverExit
              /\ lastReady' = lastReady /\ chan' = chan /\ calls' = calls
              /\ done' = << >>
              /\ reconnect' = reconnect /\ attempt' = attempt
        /\ Len(executed') = Len(conns')
        /\ \A h \in 1..Len(executed') :
              /\ executed'[h].out \in {None, Some("()")}
              /\ (executed'[h].out # None) = (conns'[h] = "closed")
        /\ (/\ PollReady /\ lastReady'.by \notin Limiters
            /\ reconnect.state = "Connected" /\ conns[reconnect.handle] = "closed") =>
              lastReady'.res = "Pending" /\ lastReady'.err = NoError
        /\ \A i \in 1..Len(done') :
              (conns[done'[i].conn] = "closed" /\ done'[i].st = "err") =>
                 done'[i].err = SendRequest_await(done'[i], "err").err
      ]_vars

C17_Witness ==
    /\ chan = "built" /\ Len(conns) = 1 /\ conns[1] = "closed"
    /\ executed[1].out = Some("()")
    /\ lastReady.term /\ lastReady.err = NoError
    /\ reconnect.state = "Connecting"
    /\ calls # << >> /\ calls[1].conn = 1

\* C20: a driver task is submitted only by the poll of a connect attempt whose
\* handshake has succeeded, one task in that poll, for the handle that the same
\* poll returns (so the engine never holds a handle whose driver has not been
\* submitted, and the tasks submitted are one for each handle, in order); the poll
\* of an attempt whose connector or handshake has failed, or whose handshake has not
\* finished, submits no task and returns no handle.
C20_DriverSubmittedOncePerHandle ==
    [][ /\ (executed' # executed /\ ~DriverExit) =>
              /\ PollsAttempt /\ attempt = [stage |-> "hs", res |-> "ok"]
              /\ MakeSendRequestService_poll(Svc).out = "Ok"
              /\ Len(executed') = Len(executed) + 1
              /\ SubSeq(executed', 1, Len(executed)) = executed
              /\ executed'[Len(executed')] =
                    [conn |-> MakeSendRequestService_poll(Svc).handle, out |-> None]
              /\ reconnect'.handle = MakeSendRequestService_poll(Svc).handle
              /\ hist.handshakes > Len(executed)
        /\ (PollsAttempt /\ attempt = [stage |-> "hs", res |-> "ok"]) =>
              Len(executed') = Len(executed) + 1 /\ reconnect'.handle = Len(executed')
        /\ (PollsAttempt /\ attempt # [stage |-> "hs", res |-> "ok"]) =>
              /\ executed' = executed /\ conns' = conns
              /\ MakeSendRequestService_poll(Svc).handle = 0
              /\ reconnect'.handle = 0
        /\ \A h \in 1..Len(executed') : executed'[h].conn = h
        /\ reconnect'.handle <= Len(executed')
        /\ Len(executed') <= hist'.handshakes /\ hist'.handshakes <= hist'.connectorCalls
      ]_vars

C20_Witness ==
    /\ Len(executed) = 1 /\ executed[1] = [conn |-> 1, out |-> None]
    /\ hist.connectorCalls = 2 /\ hist.handshakes = 1
    /\ reconnect.state = "Connected" /\ reconnect.handle = 1 /\ conns = << "open" >>

\* C18: every error in the state of the channel (the result of the latest readiness
\* check, the error the engine stores, the errors of the outstanding and the
\* finished calls) that is of kind Transport has a source, and the constructors of
\* the configuration kinds build errors of their kind without one.
CarriesCause(e) == e.kind = "Transport" => Error_source(e) # None

C18_TransportCarriesCause ==
    /\ CarriesCause(lastReady.err)
    /\ CarriesCause(reconnect.error)
    /\ \A i \in 1..Len(calls) : CarriesCause(calls[i].err)
    /\ \A i \in 1..Len(done) : CarriesCause(done[i].err)
    /\ Error_new_invalid_uri.kind = "InvalidUri"
    /\ Error_source(Error_new_invalid_uri) = None
    /\ Error_new_invalid_user_agent.kind = "InvalidUserAgent"
    /\ Error_source(Error_new_invalid_user_agent) = None

C18_Witness ==
    /\ done # << >> /\ done[1].err.kind = "Transport"
    /\ Error_source(done[1].err) = Some(TimeoutExpired)
    /\ lastReady.res = "Pending"

====
